---- MODULE Spec2Model ----
(***************************************************************************)
(* Alert state-transition and de-duplication logic of the electrical       *)
(* monitoring dashboard: the first-revision POST /send-alert handler of    *)
(* src/server.js (lines 86-170) and the poller fetchData of                *)
(* src/frontend/src/App.tsx (lines 92-182).                                *)
(*                                                                         *)
(* Node runs a handler to completion up to its first await, so the         *)
(* synchronous part of the handler (validation, classification, the        *)
(* comparison with lastAlertType, the write of lastAlertType, the          *)
(* rendering of the mail and the call of sendMail) is one atomic step; the *)
(* settlement of the sendMail promise is a later, separate step.           *)
(***************************************************************************)
EXTENDS Integers, Sequences, FiniteSets, TLC

\* ------------------------------------------------------------------ bounds
\* number of validated /send-alert requests a behaviour of Spec processes
MaxReq == 4
\* number of validated /send-alert requests a behaviour of SpecLive processes
MaxLive == 3
\* number of readings a behaviour of SpecFeed feeds to the handler
MaxFeed == 6
\* number of /send-alert calls of the dashboard that are under way at a time
MaxInFlight == 2
\* number of polls a dashboard makes in a behaviour of SpecE2E
MaxPolls == 7
\* number of readings POST /data stores in a behaviour of SpecPoll
MaxStore == 2
\* number of GET /api/data polls a dashboard makes in a behaviour of SpecPoll
MaxGets == 3
\* number of polls all dashboards together make in a behaviour of SpecPoll
MaxShared == 3
\* number of requests that reach the server in a behaviour of SpecRoutes
MaxRoutes == 3
\* number of validated requests in a behaviour of SpecSecond
MaxSecond == 4
\* number of polls in a behaviour of SpecLong, and the number of its first
\* readings that alternate between the two faults
MaxLong == 22
Warm == 17
\* the currents SpecClassify classifies are the multiples of 1/Grid A from
\* -MaxNumer/Grid A to MaxNumer/Grid A
Grid == 10
MaxNumer == 130

\* ------------------------------------------------------- JSON body values
\* A JSON value as the handler sees it: its typeof and, for a number, its
\* value.
Num(n) == [t |-> "number", v |-> n]

\* A number that need not be whole, as the ratio n/d with d > 0, and the two
\* comparisons the classifications make of it with a whole literal.
Ratio(n, d) == [n |-> n, d |-> d]
\* x > k
GreaterThan(x, k) == x.n > k * x.d
\* x === k
StrictEquals(x, k) == x.n = k * x.d
Undefined == [t |-> "undefined", v |-> 0]
Str == [t |-> "string", v |-> 0]

TypeOf(x) == x.t

\* currents of the readings: 0 A, a nominal 5 A, and 12 A; the voltage of a
\* reading is 230 V and its power 100 W where they are present
Currents == {0, 5, 12}

\* req.body of a request without a usable body
NoBody == [present |-> FALSE, id |-> 0, current |-> Undefined,
           voltage |-> Undefined, power |-> Undefined]

\* the request bodies a client can post
Bodies ==
    [present : {TRUE},
     id      : {0},
     current : {Num(c) : c \in Currents} \cup {Undefined, Str},
     voltage : {Num(230), Undefined},
     power   : {Num(100), Undefined}] \cup {NoBody}

\* App.tsx:55-61  the body sendEmailAlert builds from the reading id of the
\* store
BodyOf(id, current) ==
    [present |-> TRUE, id |-> id, current |-> Num(current),
     voltage |-> Num(230), power |-> Num(100)]

\* the dashboards that poll the store
Dashboards == {1, 2}

\* App.tsx:129  updated.slice(-20)
ChartLimit == 20
\* App.tsx:170  prev.slice(0, 9)
AlertsKept == 9

AlertTypes == {"normal", "short_circuit", "low_current"}

\* ------------------------------------------------------------ the server
\* a validation that only looks for a body
IsValid_BodyOnly(body) == body.present
\* server.js:93  if (!sensorData || typeof sensorData.current !== 'number')
IsValid(body) == body.present /\ TypeOf(body.current) = "number"

\* a classification that counts 11 A as a short circuit
ClassifyNumber_Inclusive(x) ==
    IF GreaterThan(x, 11) \/ StrictEquals(x, 11) THEN "short_circuit"
    ELSE IF StrictEquals(x, 0) THEN "low_current"
    ELSE "normal"
\* server.js:98-103  classification of the current
ClassifyNumber(x) ==
    IF GreaterThan(x, 11) THEN "short_circuit"
    ELSE IF StrictEquals(x, 0) THEN "low_current"
    ELSE "normal"

\* server.js:98-103  classification of a current of whole amperes
Classify(current) == ClassifyNumber(Ratio(current, 1))

\* a gate that forgets the comparison with lastAlertType
NoNewAlert_NoDedup(currentAlertType, last) == currentAlertType = "normal"
\* a gate that alerts only out of the normal state
NoNewAlert_OnlyFromNormal(currentAlertType, last) ==
    currentAlertType = "normal" \/ last # "normal"
\* a gate that forgets the test for normal
NoNewAlert_NoNormalTest(currentAlertType, last) == currentAlertType = last
\* server.js:106  the state is unchanged or normal
NoNewAlert(currentAlertType, last) ==
    currentAlertType = "normal" \/ currentAlertType = last

\* the unchanged-or-normal branch leaving lastAlertType alone
StateAfterSkip_Stale(currentAlertType, last) == last
\* server.js:108  lastAlertType = currentAlertType; // Keep state updated
StateAfterSkip(currentAlertType, last) == currentAlertType

\* the notify branch writing lastAlertType not at all
StateAfterNotify_Unwritten(currentAlertType, last) == last
\* server.js:115  lastAlertType = currentAlertType;
StateAfterNotify(currentAlertType, last) == currentAlertType

\* server.js:137,146  sensorData.voltage.toFixed(1), sensorData.power.toFixed(1)
\* throw a TypeError unless both are numbers (current is a number here)
CanRender(body) ==
    TypeOf(body.voltage) = "number" /\ TypeOf(body.power) = "number"

VARIABLES
    lastAlertType,    \* server.js:42
    log,              \* the validated requests in the order the handler ran
    resp,             \* the HTTP response the server sent last
    req,              \* what the validation sees of the request received last
    store,            \* the currents of the stored readings, _id = index
    gets,             \* per dashboard, the GET /api/data responses under way
    lastAlertTypeRef, \* App.tsx:43, per dashboard
    chartData,        \* App.tsx:39, per dashboard, the _id of each point
    alerts,           \* App.tsx:34, per dashboard
    apiError,         \* App.tsx:41, per dashboard, whether an error is shown
    net,              \* /send-alert calls of the dashboards not yet handled
    polled,           \* per dashboard, the currents its polls processed
    calls,            \* per dashboard, the poll and the _id of every
                      \* sendEmailAlert call
    emailStatus,      \* App.tsx:40, per dashboard
    handled,          \* per dashboard, the calls whose response it has read
    failed,           \* the route of POST /data and GET /api/data whose
                      \* handler failed last
    sample,           \* a current handed to the two classifications
    verdict           \* what the server and the dashboard make of sample

vars == <<lastAlertType, log, resp, req, store, gets, lastAlertTypeRef,
          chartData, alerts, apiError, net, polled, calls, emailStatus,
          handled, failed, sample, verdict>>
probeVars == <<sample, verdict>>
serverVars == <<lastAlertType, log, resp, req>>
dashVars == <<store, gets, lastAlertTypeRef, chartData, alerts, apiError, net,
              polled, calls, emailStatus, handled>>

NoResponse == [status |-> 0, success |-> FALSE]

\* server.js:93  the two facts the validation reads off a request body; seq
\* flips with every request received
Seen(body, seq) ==
    [seq |-> seq, present |-> body.present, currentType |-> TypeOf(body.current)]

NoVerdict == [server |-> "none", client |-> "none"]

\* the program after start-up
Boot ==
    /\ lastAlertType = "normal"
    /\ log = <<>>
    /\ resp = NoResponse
    /\ req = Seen(NoBody, 0)
    /\ store = <<>>
    /\ gets = [d \in Dashboards |-> <<>>]
    /\ lastAlertTypeRef = [d \in Dashboards |-> "normal"]
    /\ chartData = [d \in Dashboards |-> <<>>]
    /\ alerts = [d \in Dashboards |-> <<>>]
    /\ apiError = [d \in Dashboards |-> FALSE]
    /\ net = {}
    /\ polled = [d \in Dashboards |-> <<>>]
    /\ calls = [d \in Dashboards |-> <<>>]
    /\ emailStatus = [d \in Dashboards |-> "none"]
    /\ handled = [d \in Dashboards |-> {}]
    /\ failed = "none"

Init ==
    /\ Boot
    /\ sample = Ratio(0, 1)
    /\ verdict = NoVerdict

\* One entry of log: d is the dashboard that sent the request and pos its poll
\* that issued the call (both 0 for a request of another client), id the _id
\* of the body, prev the value of lastAlertType the request was compared
\* with, post the value the handler wrote to lastAlertType, dispatch whether
\* the handler took the new-alert branch (steps 3-5), mail whether it called
\* sendMail, outcome how the request stands, answers the number of responses
\* sent for it and response the response sent last for it.
Entry(d, pos, body, prev, post, dispatch, mail, outcome) ==
    [d |-> d, pos |-> pos, id |-> body.id, current |-> body.current.v,
     wf |-> CanRender(body),
     prev |-> prev, post |-> post, dispatch |-> dispatch, mail |-> mail,
     outcome |-> outcome,
     answers |-> IF outcome = "pending" THEN 0 ELSE 1,
     response |-> CASE outcome = "unchanged" -> [status |-> 200, success |-> FALSE]
                    [] outcome = "failed" -> [status |-> 500, success |-> FALSE]
                    [] OTHER -> NoResponse]

\* server.js:88-156  the handler of POST /send-alert up to its await
SendAlert(body, d, pos) ==
    /\ req' = Seen(body, 1 - req.seq)
    /\ IF ~IsValid(body)
       THEN \* server.js:94
            /\ resp' = [status |-> 400, success |-> FALSE]
            /\ UNCHANGED <<lastAlertType, log>>
       ELSE LET currentAlertType == Classify(body.current.v) IN
            IF NoNewAlert(currentAlertType, lastAlertType)
            THEN \* server.js:107-109
                 LET post == StateAfterSkip(currentAlertType, lastAlertType) IN
                 /\ lastAlertType' = post
                 /\ log' = Append(log, Entry(d, pos, body, lastAlertType, post,
                                             FALSE, FALSE, "unchanged"))
                 /\ resp' = [status |-> 200, success |-> FALSE]
            ELSE \* server.js:114-156
                 LET post == StateAfterNotify(currentAlertType, lastAlertType) IN
                 /\ lastAlertType' = post
                 /\ IF CanRender(body)
                    THEN \* sendMail is called, the handler awaits it
                         /\ log' = Append(log, Entry(d, pos, body, lastAlertType, post,
                                                     TRUE, TRUE, "pending"))
                         /\ UNCHANGED resp
                    ELSE \* TypeError in the template, caught at server.js:163
                         /\ log' = Append(log, Entry(d, pos, body, lastAlertType, post,
                                                     TRUE, FALSE, "failed"))
                         /\ resp' = [status |-> 500, success |-> FALSE]

\* a client other than the dashboard posts a body to /send-alert
PostSendAlert(body) ==
    /\ Len(log) < MaxReq
    /\ SendAlert(body, 0, 0)
    /\ UNCHANGED <<dashVars, failed, probeVars>>

\* the store's readings (numeric voltage, current and power), every one
\* posted to /send-alert in order
FeedBodies == {BodyOf(0, c) : c \in Currents}

PostReading(body) ==
    /\ Len(log) < MaxFeed
    /\ SendAlert(body, 0, 0)
    /\ UNCHANGED <<dashVars, failed, probeVars>>

\* ------------------------------------- the second revision of /send-alert
\* the requests posted to the second revision: the currents 0, 5, 12 and 13 A
\* with numeric voltage and power, 13 A without voltage, a current that is
\* not a number, no body
SecondBodies ==
    {BodyOf(0, c) : c \in Currents \cup {13}}
        \cup {[BodyOf(0, 13) EXCEPT !.voltage = Undefined],
              [BodyOf(0, 13) EXCEPT !.current = Str],
              NoBody}

\* a limit of 11 A as in the first revision
WithinLimits_Eleven(current) == current <= 11
\* server.js:281  sensorData.current <= 12
WithinLimits(current) == current <= 12

\* server.js:271-363  the handler of the second revision up to its await; it
\* reads and writes no variable of the server
SendAlertSecond(body) ==
    /\ req' = Seen(body, 1 - req.seq)
    /\ UNCHANGED lastAlertType
    /\ IF ~IsValid(body)
       THEN \* server.js:277
            /\ resp' = [status |-> 400, success |-> FALSE]
            /\ UNCHANGED log
       ELSE IF WithinLimits(body.current.v)
       THEN \* server.js:282
            /\ log' = Append(log, Entry(0, 0, body, lastAlertType, lastAlertType,
                                        FALSE, FALSE, "unchanged"))
            /\ resp' = [status |-> 200, success |-> FALSE]
       ELSE IF CanRender(body)
       THEN \* server.js:363  sendMail is called, the handler awaits it
            /\ log' = Append(log, Entry(0, 0, body, lastAlertType, lastAlertType,
                                        TRUE, TRUE, "pending"))
            /\ UNCHANGED resp
       ELSE \* TypeError in the template, caught at server.js:371
            /\ log' = Append(log, Entry(0, 0, body, lastAlertType, lastAlertType,
                                        TRUE, FALSE, "failed"))
            /\ resp' = [status |-> 500, success |-> FALSE]

\* a client posts a body to the second revision
PostSecond(body) ==
    /\ Len(log) < MaxSecond
    /\ SendAlertSecond(body)
    /\ UNCHANGED <<dashVars, failed, probeVars>>

\* a success path that re-arms the gatekeeper
SendMailResolve_Rearm(i) ==
    /\ i \in 1..Len(log)
    /\ log[i].outcome = "pending"
    /\ log' = [log EXCEPT ![i].outcome = "sent",
                          ![i].answers = @ + 1,
                          ![i].response = [status |-> 200, success |-> TRUE]]
    /\ resp' = [status |-> 200, success |-> TRUE]
    /\ lastAlertType' = "normal"
    /\ UNCHANGED <<req, dashVars, failed, probeVars>>
\* server.js:156-162  sendMail resolved
SendMailResolve(i) ==
    /\ i \in 1..Len(log)
    /\ log[i].outcome = "pending"
    /\ log' = [log EXCEPT ![i].outcome = "sent",
                          ![i].answers = @ + 1,
                          ![i].response = [status |-> 200, success |-> TRUE]]
    /\ resp' = [status |-> 200, success |-> TRUE]
    /\ UNCHANGED <<lastAlertType, req, dashVars, failed, probeVars>>

\* a catch block that re-arms the gatekeeper
SendMailReject_Rollback(i) ==
    /\ i \in 1..Len(log)
    /\ log[i].outcome = "pending"
    /\ log' = [log EXCEPT ![i].outcome = "failed",
                          ![i].answers = @ + 1,
                          ![i].response = [status |-> 500, success |-> FALSE]]
    /\ resp' = [status |-> 500, success |-> FALSE]
    /\ lastAlertType' = "normal"
    /\ UNCHANGED <<req, dashVars, failed, probeVars>>
\* a catch block that reports success
SendMailReject_Swallow(i) ==
    /\ i \in 1..Len(log)
    /\ log[i].outcome = "pending"
    /\ log' = [log EXCEPT ![i].outcome = "failed",
                          ![i].answers = @ + 1,
                          ![i].response = [status |-> 200, success |-> TRUE]]
    /\ resp' = [status |-> 200, success |-> TRUE]
    /\ UNCHANGED <<lastAlertType, req, dashVars, failed, probeVars>>
\* server.js:156,163-169  sendMail rejected, the catch block answers
SendMailReject(i) ==
    /\ i \in 1..Len(log)
    /\ log[i].outcome = "pending"
    /\ log' = [log EXCEPT ![i].outcome = "failed",
                          ![i].answers = @ + 1,
                          ![i].response = [status |-> 500, success |-> FALSE]]
    /\ resp' = [status |-> 500, success |-> FALSE]
    /\ UNCHANGED <<lastAlertType, req, dashVars, failed, probeVars>>

\* --------------------------------------------------------- the dashboard
\* a dashboard with the limit of 12 A of the superseded server revision
ClientClassifyNumber_Limit12(x) ==
    LET shortCircuitDetected == GreaterThan(x, 12)
        lowCurrentDetected == StrictEquals(x, 0)
    IN  IF shortCircuitDetected THEN "short_circuit"
        ELSE IF lowCurrentDetected THEN "low_current"
        ELSE "normal"
\* App.tsx:133-141  classification of the current by fetchData
ClientClassifyNumber(x) ==
    LET shortCircuitDetected == GreaterThan(x, 11)
        lowCurrentDetected == StrictEquals(x, 0)
    IN  IF shortCircuitDetected THEN "short_circuit"
        ELSE IF lowCurrentDetected THEN "low_current"
        ELSE "normal"

\* App.tsx:133-141  classification of a current of whole amperes
ClientClassify(current) == ClientClassifyNumber(Ratio(current, 1))

\* App.tsx:144  the test that guards sendEmailAlert
IsNewAlert(currentAlertType, last) ==
    currentAlertType # "normal" /\ currentAlertType # last

\* a dashboard that remembers the last fault over Normal readings
RefAfterPoll_FaultsOnly(currentAlertType, last) ==
    IF currentAlertType = "normal" THEN last ELSE currentAlertType
\* App.tsx:175  lastAlertTypeRef.current = currentAlertType
RefAfterPoll(currentAlertType, last) == currentAlertType

\* a slice that keeps one element more
FirstN_OneMore(q, n) == IF Len(q) <= n + 1 THEN q ELSE SubSeq(q, 1, n + 1)
\* App.tsx:170  prev.slice(0, n): the first n elements of a sequence
FirstN(q, n) == IF Len(q) <= n THEN q ELSE SubSeq(q, 1, n)

\* a slice that keeps the oldest elements
LastN_Oldest(q, n) == IF Len(q) <= n THEN q ELSE SubSeq(q, 1, n)
\* App.tsx:129  updated.slice(-n): the last n elements of a sequence
LastN(q, n) == IF Len(q) <= n THEN q ELSE SubSeq(q, Len(q) - n + 1, Len(q))

\* the sequence q without its k-th element
Without(q, k) == SubSeq(q, 1, k - 1) \o SubSeq(q, k + 1, Len(q))

\* App.tsx:95-176  fetchData of dashboard d, from the arrival of a response
\* whose first element is the reading id with this current
ProcessReading(d, id, current) ==
    LET currentAlertType == ClientClassify(current)
        pos == Len(polled[d]) + 1
    IN  /\ apiError' = [apiError EXCEPT ![d] = FALSE]
        /\ chartData' = [chartData EXCEPT
                            ![d] = LastN(Append(chartData[d], id), ChartLimit)]
        /\ polled' = [polled EXCEPT ![d] = Append(polled[d], current)]
        /\ IF IsNewAlert(currentAlertType, lastAlertTypeRef[d])
           THEN \* App.tsx:149  sendEmailAlert(newData), not awaited
                /\ net' = net \cup {[d |-> d, pos |-> pos,
                                     body |-> BodyOf(id, current)]}
                /\ calls' = [calls EXCEPT
                                ![d] = Append(calls[d], [pos |-> pos, id |-> id])]
                /\ alerts' = [alerts EXCEPT
                                 ![d] = <<[id |-> id, type |-> currentAlertType]>>
                                        \o FirstN(alerts[d], AlertsKept)]
           ELSE UNCHANGED <<net, calls, alerts>>
        /\ lastAlertTypeRef' =
               [lastAlertTypeRef EXCEPT
                   ![d] = RefAfterPoll(currentAlertType, lastAlertTypeRef[d])]

\* server.js:62-66 and App.tsx:92-177  a reading with this current is stored
\* and the next poll of dashboard 1 returns and processes it
FetchData(current) ==
    /\ Len(polled[1]) < MaxPolls
    /\ Cardinality(net) < MaxInFlight
    /\ store' = Append(store, current)
    /\ ProcessReading(1, Len(store) + 1, current)
    /\ UNCHANGED <<serverVars, gets, emailStatus, handled, failed, probeVars>>

\* the currents the k-th reading of a long stream can have: the first Warm
\* readings alternate between 12 A and 0 A, the later ones are arbitrary
LongCurrents(k) ==
    IF k <= Warm THEN {IF k % 2 = 1 THEN 12 ELSE 0} ELSE Currents

\* server.js:62-66 and App.tsx:92-177  a reading of a long stream is stored
\* and the next poll of dashboard 1 returns and processes it
FetchNext(current) ==
    /\ Len(polled[1]) < MaxLong
    /\ current \in LongCurrents(Len(polled[1]) + 1)
    /\ store' = Append(store, current)
    /\ ProcessReading(1, Len(store) + 1, current)
    /\ UNCHANGED <<serverVars, gets, emailStatus, handled, failed, probeVars>>

\* App.tsx:50-62  a call of sendEmailAlert reaches the server
DeliverAlert(call) ==
    /\ call \in net
    /\ net' = net \ {call}
    /\ SendAlert(call.body, call.d, call.pos)
    /\ UNCHANGED <<store, gets, lastAlertTypeRef, chartData, alerts, apiError,
                   polled, calls,
                   emailStatus, handled, failed, probeVars>>

\* App.tsx:50-62  the oldest call of sendEmailAlert under way reaches the
\* server
DeliverInOrder ==
    \E call \in net :
        /\ \A other \in net : call.pos <= other.pos
        /\ DeliverAlert(call)

\* App.tsx:64-83  the emailStatus sendEmailAlert leaves after a response:
\* HTTP 404 is shown as a sent mail, any other status outside 200 throws and
\* is shown as an error, success true is shown as sent, success false with a
\* message is only logged
StatusAfter(old, response) ==
    IF response.status = 404 THEN "sent_demo"
    ELSE IF response.status # 200 THEN "error"
    ELSE IF response.success THEN "sent"
    ELSE old

\* App.tsx:63-83  the response to the i-th handled request reaches
\* dashboard d, which sent it
AlertReturn(d, i) ==
    /\ i \in 1..Len(log)
    /\ log[i].d = d
    /\ log[i].answers = 1
    /\ log[i].pos \notin handled[d]
    /\ handled' = [handled EXCEPT ![d] = @ \cup {log[i].pos}]
    /\ emailStatus' = [emailStatus EXCEPT
                           ![d] = StatusAfter(@, log[i].response)]
    /\ UNCHANGED <<serverVars, store, gets, lastAlertTypeRef, chartData,
                   alerts, apiError, net, polled, calls, failed, probeVars>>

\* a catch block that makes the next poll report again
AlertFail_Retry(call) ==
    /\ call \in net
    /\ net' = net \ {call}
    /\ handled' = [handled EXCEPT ![call.d] = @ \cup {call.pos}]
    /\ emailStatus' = [emailStatus EXCEPT ![call.d] = "error"]
    /\ lastAlertTypeRef' = [lastAlertTypeRef EXCEPT ![call.d] = "normal"]
    /\ UNCHANGED <<serverVars, store, gets, chartData,
                   alerts, apiError, polled, calls, failed, probeVars>>
\* App.tsx:48,85-88  the fetch of a call rejects (the request does not reach
\* the server), the catch block sets the status
AlertFail(call) ==
    /\ call \in net
    /\ net' = net \ {call}
    /\ handled' = [handled EXCEPT ![call.d] = @ \cup {call.pos}]
    /\ emailStatus' = [emailStatus EXCEPT ![call.d] = "error"]
    /\ UNCHANGED <<serverVars, store, gets, lastAlertTypeRef, chartData,
                   alerts, apiError, polled, calls, failed, probeVars>>

\* App.tsx:48,64-70  a call is answered HTTP 404 (no /send-alert route where
\* the request arrives)
AlertNotFound(call) ==
    /\ call \in net
    /\ net' = net \ {call}
    /\ handled' = [handled EXCEPT ![call.d] = @ \cup {call.pos}]
    /\ emailStatus' = [emailStatus EXCEPT
                           ![call.d] = StatusAfter(@, [status |-> 404,
                                                       success |-> FALSE])]
    /\ UNCHANGED <<serverVars, store, gets, lastAlertTypeRef, chartData,
                   alerts, apiError, polled, calls, failed, probeVars>>

\* a POST /data that re-arms the gatekeeper
StoreReading_Reset(current) ==
    /\ Len(store) < MaxStore
    /\ store' = Append(store, current)
    /\ lastAlertType' = "normal"
    /\ UNCHANGED <<log, resp, req, gets, lastAlertTypeRef, chartData, alerts,
                   apiError, net, polled, calls,
                   emailStatus, handled, failed, probeVars>>
\* server.js:62-66  POST /data stores a reading
StoreReading(current) ==
    /\ Len(store) < MaxStore
    /\ store' = Append(store, current)
    /\ UNCHANGED <<serverVars, gets, lastAlertTypeRef, chartData, alerts,
                   apiError, net, polled, calls,
                   emailStatus, handled, failed, probeVars>>

\* App.tsx:94, server.js:76-79  a poll of dashboard d: the server reads the
\* newest readings; the response carries the _id of the first, 0 for an empty
\* list
GetData(d) ==
    /\ Len(polled[d]) + Len(gets[d]) < MaxGets
    /\ Len(gets[d]) < MaxInFlight
    /\ gets' = [gets EXCEPT ![d] = Append(gets[d], Len(store))]
    /\ UNCHANGED <<serverVars, store, lastAlertTypeRef, chartData, alerts,
                   apiError, net, polled, calls,
                   emailStatus, handled, failed, probeVars>>

\* server.js:62-64,69-72  POST /data whose save fails: nothing is stored, the
\* answer is HTTP 500
StoreFail ==
    /\ failed' = "data"
    /\ UNCHANGED <<serverVars, dashVars, probeVars>>

\* App.tsx:94, server.js:76-77,80-83  a poll of dashboard d whose query fails:
\* the answer is HTTP 500, -1 in gets
GetDataFail(d) ==
    /\ Len(polled[d]) + Len(gets[d]) < MaxGets
    /\ Len(gets[d]) < MaxInFlight
    /\ gets' = [gets EXCEPT ![d] = Append(gets[d], -1)]
    /\ failed' = "api"
    /\ UNCHANGED <<serverVars, store, lastAlertTypeRef, chartData, alerts,
                   apiError, net, polled, calls, emailStatus, handled,
                   probeVars>>

\* App.tsx:94-177  the k-th response under way, an HTTP 200, reaches
\* dashboard d
ProcessData(d, k) ==
    /\ k \in 1..Len(gets[d])
    /\ gets[d][k] >= 0
    /\ gets' = [gets EXCEPT ![d] = Without(gets[d], k)]
    /\ IF gets[d][k] = 0
       THEN \* App.tsx:95-97  an empty list
            /\ apiError' = [apiError EXCEPT ![d] = FALSE]
            /\ UNCHANGED <<lastAlertTypeRef, chartData, alerts, net, polled,
                           calls>>
       ELSE ProcessReading(d, gets[d][k], store[gets[d][k]])
    /\ UNCHANGED <<serverVars, store, emailStatus, handled, failed, probeVars>>

\* a catch block that forgets the last condition
FetchFail_Reset(d, k) ==
    /\ k \in 1..Len(gets[d])
    /\ gets' = [gets EXCEPT ![d] = Without(gets[d], k)]
    /\ apiError' = [apiError EXCEPT ![d] = TRUE]
    /\ lastAlertTypeRef' = [lastAlertTypeRef EXCEPT ![d] = "normal"]
    /\ UNCHANGED <<serverVars, store, chartData, alerts, net,
                   polled, calls,
                   emailStatus, handled, failed, probeVars>>
\* App.tsx:94,178-181  the k-th poll under way of dashboard d fails: its
\* answer is an HTTP 500 or does not arrive
FetchFail(d, k) ==
    /\ k \in 1..Len(gets[d])
    /\ gets' = [gets EXCEPT ![d] = Without(gets[d], k)]
    /\ apiError' = [apiError EXCEPT ![d] = TRUE]
    /\ UNCHANGED <<serverVars, store, lastAlertTypeRef, chartData, alerts, net,
                   polled, calls,
                   emailStatus, handled, failed, probeVars>>

\* ---------------------------------------------------- the classifications
Samples == {Ratio(n, Grid) : n \in -MaxNumer..MaxNumer}

InitClassify ==
    /\ Boot
    /\ sample \in Samples
    /\ verdict = NoVerdict

\* server.js:98-103 and App.tsx:133-141 applied to the same current
ClassifyReading ==
    /\ verdict = NoVerdict
    /\ verdict' = [server |-> ClassifyNumber(sample),
                   client |-> ClientClassifyNumber(sample)]
    /\ UNCHANGED <<serverVars, dashVars, failed, sample>>

SpecClassify == InitClassify /\ [][ClassifyReading]_vars

\* -------------------------------------------------------- specifications
\* the server under arbitrary clients
Next ==
    \/ \E body \in Bodies : PostSendAlert(body)
    \/ \E i \in 1..MaxReq : SendMailResolve(i)
    \/ \E i \in 1..MaxReq : SendMailReject(i)

Spec == Init /\ [][Next]_vars

\* the handler fed every reading of the store in order
NextFeed ==
    \/ \E body \in FeedBodies : PostReading(body)
    \/ \E i \in 1..MaxFeed : SendMailResolve(i)
    \/ \E i \in 1..MaxFeed : SendMailReject(i)

SpecFeed == Init /\ [][NextFeed]_vars

\* the server when every sendMail promise is settled in the end
PostLive(body) ==
    /\ Len(log) < MaxLive
    /\ SendAlert(body, 0, 0)
    /\ UNCHANGED <<dashVars, failed, probeVars>>

NextLive ==
    \/ \E body \in Bodies : PostLive(body)
    \/ \E i \in 1..MaxLive : SendMailResolve(i)
    \/ \E i \in 1..MaxLive : SendMailReject(i)

SpecLive ==
    /\ Init /\ [][NextLive]_vars
    /\ \A i \in 1..MaxLive : WF_vars(SendMailResolve(i) \/ SendMailReject(i))

\* the second revision of the server under arbitrary clients
NextSecond ==
    \/ \E body \in SecondBodies : PostSecond(body)
    \/ \E i \in 1..MaxSecond : SendMailResolve(i)
    \/ \E i \in 1..MaxSecond : SendMailReject(i)

SpecSecond == Init /\ [][NextSecond]_vars

\* one dashboard that polls a long stream of readings
NextLong == \E c \in Currents : FetchNext(c)

SpecLong == Init /\ [][NextLong]_vars

\* the requests that have reached the server
RoutesUsed == Len(log) + Len(store) + Len(gets[1])

\* the three routes of the server, each succeeding or failing
NextRoutes ==
    \/ \E body \in Bodies : RoutesUsed < MaxRoutes /\ PostLive(body)
    \/ \E i \in 1..MaxLive : SendMailResolve(i)
    \/ \E i \in 1..MaxLive : SendMailReject(i)
    \/ \E c \in Currents : RoutesUsed < MaxRoutes /\ StoreReading(c)
    \/ StoreFail
    \/ RoutesUsed < MaxRoutes /\ GetData(1)
    \/ RoutesUsed < MaxRoutes /\ GetDataFail(1)
    \/ \E k \in 1..MaxInFlight : FetchFail(1, k)

SpecRoutes == Init /\ [][NextRoutes]_vars

\* the number of polls the dashboards have made
PollsMade ==
    LET n(d) == Len(polled[d]) + Len(gets[d]) IN n(1) + n(2)

\* dashboards that poll one store and report to one server; polls overlap and
\* are answered late, calls reach the server in any order
NextPoll ==
    \/ \E c \in Currents : StoreReading(c)
    \/ \E d \in Dashboards : PollsMade < MaxShared /\ GetData(d)
    \/ \E d \in Dashboards : \E k \in 1..MaxInFlight : ProcessData(d, k)
    \/ \E call \in net : DeliverAlert(call)

SpecPoll == Init /\ [][NextPoll]_vars

\* one dashboard whose polls overlap, fail and are answered late
NextDash ==
    \/ \E c \in Currents : StoreReading(c)
    \/ GetData(1)
    \/ \E k \in 1..MaxInFlight : ProcessData(1, k)
    \/ \E k \in 1..MaxInFlight : FetchFail(1, k)
    \/ \E call \in net : DeliverAlert(call)

SpecDash == Init /\ [][NextDash]_vars

\* one dashboard and a server; calls reach the server or fail, mails are sent
\* or fail, the responses come back to the dashboard
NextReport ==
    \/ \E c \in Currents : StoreReading(c)
    \/ GetData(1)
    \/ \E k \in 1..MaxInFlight : ProcessData(1, k)
    \/ \E call \in net : DeliverAlert(call)
    \/ \E call \in net : AlertFail(call)
    \/ \E call \in net : AlertNotFound(call)
    \/ \E i \in 1..MaxGets : SendMailResolve(i)
    \/ \E i \in 1..MaxGets : SendMailReject(i)
    \/ \E i \in 1..MaxGets : AlertReturn(1, i)

SpecReport == Init /\ [][NextReport]_vars

\* one dashboard and a server, the calls reach the server in the order they
\* were issued
NextOrdered ==
    \/ \E c \in Currents : FetchData(c)
    \/ DeliverInOrder
    \/ \E i \in 1..MaxPolls : SendMailResolve(i)
    \/ \E i \in 1..MaxPolls : SendMailReject(i)

SpecOrdered == Init /\ [][NextOrdered]_vars

\* one dashboard and a server, every call and every delivery succeeds
NextE2E ==
    \/ \E c \in Currents : FetchData(c)
    \/ \E call \in net : DeliverAlert(call)
    \/ \E i \in 1..MaxPolls : SendMailResolve(i)

SpecE2E == Init /\ [][NextE2E]_vars

\* ------------------------------------------------------------ properties
Faults == AlertTypes \ {"normal"}

\* the condition of the i-th validated request
Cond(i) == Classify(log[i].current)

Conds == [i \in 1..Len(log) |-> Cond(i)]
Mails == [i \in 1..Len(log) |-> log[i].mail]
Dispatches == [i \in 1..Len(log) |-> log[i].dispatch]

IsPrefix(s, t) == Len(s) <= Len(t) /\ SubSeq(t, 1, Len(s)) = s

\* C1: fed well-formed requests only, sendMail is called for a request of a
\* non-normal condition exactly when the request is the first of its maximal
\* run of consecutive requests of that condition: one dispatch per run, made
\* for its first request, none for the later requests of the run.
C1_OnePerRun ==
    \A i \in 1..Len(log) :
        (log[i].wf /\ Cond(i) # "normal") =>
            (log[i].mail <=> (i = 1 \/ Cond(i - 1) # Cond(i)))

C1_Witness ==
    \E i \in 1..Len(log) :
        /\ i + 2 <= Len(log)
        /\ Cond(i) = "short_circuit"
        /\ Cond(i + 1) = "short_circuit"
        /\ Cond(i + 2) = "short_circuit"
        /\ log[i].mail /\ ~log[i + 1].mail /\ ~log[i + 2].mail

\* C2: fed every reading in order, a reading of a non-normal condition handled
\* right after a reading of condition normal has sendMail called, whatever was
\* notified before; the conditions normal, short circuit (three times),
\* normal, short circuit give the dispatches no, yes, no, no, no, yes.
SeqC2 == <<"normal", "short_circuit", "short_circuit", "short_circuit",
           "normal", "short_circuit">>

C2_RetriggerAfterNormal ==
    /\ \A i \in 2..Len(log) :
           (Cond(i - 1) = "normal" /\ Cond(i) # "normal") =>
               (log[i].dispatch /\ log[i].mail)
    /\ IsPrefix(SeqC2, Conds) =>
           IsPrefix(<<FALSE, TRUE, FALSE, FALSE, FALSE, TRUE>>, Mails)

C2_Witness ==
    /\ IsPrefix(SeqC2, Conds)
    /\ log[2].mail /\ log[6].mail
    /\ log[2].outcome = "sent"

\* C3 (as claimed): once every call is answered and every mail delivered, the
\* polls 5, 5, 0, 0, 12, 5, 12 have led to a mail for exactly the polls 3, 5
\* and 7, and every poll whose condition is non-normal after a normal one has
\* led to a mail.
StreamC3 == <<5, 5, 0, 0, 12, 5, 12>>

Quiescent ==
    /\ net = {}
    /\ \A i \in 1..Len(log) : log[i].outcome # "pending"

Mailed == {log[i].pos : i \in {j \in 1..Len(log) : log[j].outcome = "sent"}}

C3_EndToEnd ==
    Quiescent =>
        /\ polled[1] = StreamC3 => Mailed = {3, 5, 7}
        /\ \A k \in 1..Len(polled[1]) :
               ( /\ ClientClassify(polled[1][k]) # "normal"
                 /\ (k = 1 \/ ClientClassify(polled[1][k - 1]) = "normal") )
               => k \in Mailed

\* C4: of two requests of the same non-normal condition handled one after the
\* other from lastAlertType = normal, the first takes the new-alert branch
\* (and calls sendMail when its mail can be rendered), the second is answered
\* "unchanged or normal" and calls nothing, also when the first still awaits
\* sendMail.
C4_OneOfTwo ==
    \A i \in 1..Len(log) :
        ( /\ i + 1 <= Len(log)
          /\ log[i].prev = "normal"
          /\ Cond(i) # "normal"
          /\ Cond(i + 1) = Cond(i) )
        => /\ log[i].dispatch
           /\ log[i].wf => log[i].mail
           /\ ~log[i + 1].dispatch /\ ~log[i + 1].mail
           /\ log[i + 1].outcome = "unchanged"

C4_Witness ==
    \E i \in 1..Len(log) :
        /\ i + 1 <= Len(log)
        /\ log[i].prev = "normal"
        /\ Cond(i) = "short_circuit"
        /\ log[i].outcome = "pending"
        /\ Cond(i + 1) = "short_circuit"
        /\ log[i + 1].outcome = "unchanged"

\* C5: lastAlertType is the classification of the current of the validated
\* request handled last, and normal when there is none, whatever became of
\* the mails.
C5_LastProcessed ==
    lastAlertType = IF log = <<>> THEN "normal" ELSE Cond(Len(log))

C5_Witness ==
    /\ Len(log) >= 2
    /\ log[Len(log)].outcome = "failed"
    /\ log[Len(log) - 1].outcome = "sent"
    /\ lastAlertType = "low_current"

\* C6: a request of one non-normal condition handled while lastAlertType holds
\* the other one takes the new-alert branch (sendMail is called when its mail
\* can be rendered) and writes its condition to lastAlertType; the conditions
\* normal, short circuit, low current give the dispatches no, yes, yes.
SeqC6 == <<"normal", "short_circuit", "low_current">>

C6_FaultToFault ==
    /\ \A i \in 1..Len(log) :
           (log[i].prev \in Faults /\ Cond(i) \in Faults \ {log[i].prev}) =>
               /\ log[i].dispatch
               /\ log[i].wf => log[i].mail
               /\ log[i].post = Cond(i)
    /\ IsPrefix(SeqC6, Conds) =>
           /\ IsPrefix(<<FALSE, TRUE, TRUE>>, Dispatches)
           /\ (log[2].wf /\ log[3].wf) => IsPrefix(<<FALSE, TRUE, TRUE>>, Mails)

C6_Witness ==
    /\ IsPrefix(SeqC6, Conds)
    /\ IsPrefix(<<FALSE, TRUE, TRUE>>, Mails)
    /\ lastAlertType = "low_current"

\* C7: a request of condition normal never takes the new-alert branch and
\* writes normal to lastAlertType; the new-alert branch is taken, and sendMail
\* called, only on the edges normal -> short circuit, normal -> low current,
\* short circuit -> low current and low current -> short circuit.
NotifyEdges ==
    {<<"normal", "short_circuit">>, <<"normal", "low_current">>,
     <<"short_circuit", "low_current">>, <<"low_current", "short_circuit">>}

C7_NormalSilent ==
    \A i \in 1..Len(log) :
        /\ Cond(i) = "normal" =>
               /\ ~log[i].dispatch /\ ~log[i].mail
               /\ log[i].outcome = "unchanged"
               /\ log[i].post = "normal"
        /\ (log[i].dispatch \/ log[i].mail) =>
               <<log[i].prev, Cond(i)>> \in NotifyEdges

C7_Witness ==
    \E i \in 1..Len(log) :
        /\ log[i].prev = "short_circuit"
        /\ Cond(i) = "normal"
        /\ log[i].outcome = "unchanged"
        /\ log[i].post = "normal"

\* C8 (as claimed): no request with a missing or non-numeric voltage or power
\* gets past the validation, and a well-formed request of a non-normal
\* condition is answered "unchanged" only when sendMail was called for an
\* earlier request of its run.
C8_MalformedRejected ==
    /\ \A i \in 1..Len(log) : log[i].wf
    /\ \A i \in 1..Len(log) :
           (log[i].wf /\ Cond(i) # "normal" /\ log[i].outcome = "unchanged") =>
               \E j \in 1..(i - 1) :
                   /\ log[j].mail
                   /\ \A k \in j..i : Cond(k) = Cond(i)

\* C9: the step in which sendMail fails answers HTTP 500 and leaves
\* lastAlertType alone, and the request handled right after a request whose
\* sendMail failed, if of the same condition, does not take the new-alert
\* branch.
C9_NoRollback ==
    /\ [][\A i \in 1..Len(log) :
              (log[i].outcome = "pending" /\ log'[i].outcome = "failed") =>
                  (lastAlertType' = lastAlertType /\ resp'.status = 500)]_vars
    /\ [](\A i \in 1..Len(log) :
              ( /\ log[i].mail /\ log[i].outcome = "failed"
                /\ i + 1 <= Len(log)
                /\ Cond(i + 1) = Cond(i) )
              => (~log[i + 1].dispatch /\ log[i + 1].outcome = "unchanged"))

\* the answer sent last is the "unchanged" one of the request handled last, so
\* the failure of the request before it was answered earlier
C9_Witness ==
    /\ Len(log) >= 2
    /\ log[Len(log) - 1].mail
    /\ log[Len(log) - 1].outcome = "failed"
    /\ Cond(Len(log)) = Cond(Len(log) - 1)
    /\ log[Len(log)].outcome = "unchanged"
    /\ resp = [status |-> 200, success |-> FALSE]
    /\ lastAlertType = Cond(Len(log) - 1)

\* C10: after a request whose dispatch failed, the next request, if of the
\* other non-normal condition, takes the new-alert branch, and so does a
\* request of the same condition that follows one intervening request of
\* condition normal (sendMail is called when the mail can be rendered).
C10_FailureDoesNotBlock ==
    \A i \in 1..Len(log) :
        (log[i].dispatch /\ log[i].outcome = "failed") =>
            /\ ( /\ i + 1 <= Len(log)
                 /\ Cond(i + 1) \in Faults \ {Cond(i)} )
               => /\ log[i + 1].dispatch
                  /\ log[i + 1].wf => log[i + 1].mail
            /\ ( /\ i + 2 <= Len(log)
                 /\ Cond(i + 1) = "normal"
                 /\ Cond(i + 2) = Cond(i) )
               => /\ log[i + 2].dispatch
                  /\ log[i + 2].wf => log[i + 2].mail

\* the answer sent last is the "unchanged" one of the normal request, so the
\* failure was answered before the normal request was handled
C10_Witness ==
    /\ Len(log) >= 3
    /\ log[Len(log) - 2].mail
    /\ log[Len(log) - 2].outcome = "failed"
    /\ Cond(Len(log) - 1) = "normal"
    /\ Cond(Len(log)) = Cond(Len(log) - 2)
    /\ log[Len(log)].outcome = "pending"
    /\ resp = [status |-> 200, success |-> FALSE]

\* the last validated request
Last == log[Len(log)]

\* C11: the step of the handler that takes the new-alert branch compares with
\* the value lastAlertType had before the step and leaves the request's
\* condition in lastAlertType, in the very step that starts sendMail; every
\* request compares with what the request before it wrote; so the write is
\* made when sendMail is started and when the response is sent.
C11_WriteBeforeSend ==
    /\ [][(Len(log') = Len(log) + 1 /\ log'[Len(log')].dispatch) =>
              /\ log'[Len(log')].prev = lastAlertType
              /\ lastAlertType' = Classify(log'[Len(log')].current)
              /\ log'[Len(log')].post = lastAlertType']_vars
    /\ [](\A i \in 1..Len(log) :
              /\ (log[i].dispatch \/ log[i].answers > 0) => log[i].post = Cond(i)
              /\ log[i].prev = IF i = 1 THEN "normal" ELSE log[i - 1].post)

C11_Witness ==
    /\ Len(log) >= 2
    /\ log[1].mail /\ log[1].outcome = "sent" /\ log[1].post = Cond(1)
    /\ Last.mail /\ Last.outcome = "pending"
    /\ lastAlertType = Cond(Len(log))

\* the number of sendEmailAlert calls dashboard d made for the reading id
CallsFor(d, id) ==
    Cardinality({k \in 1..Len(calls[d]) : calls[d][k].id = id})

\* the number of requests with the reading id for which sendMail was called
MailsFor(id) ==
    Cardinality({i \in 1..Len(log) : log[i].id = id /\ log[i].mail})

\* C12: for every reading id, a dashboard calls POST /send-alert at most once,
\* whatever the timing of its polls and the order in which the responses of
\* overlapping polls are processed.
C12_OncePerReading ==
    \A id \in 1..Len(store) : CallsFor(1, id) <= 1

\* C13: with two dashboards that poll the same store and report to the same
\* server, every reading causes at most one call of sendMail, under every
\* interleaving and delay of the /send-alert calls.
C13_OneMailPerReading ==
    \A id \in 1..Len(store) : MailsFor(id) <= 1

\* C14: a request without a body, or whose current is not of type number, is
\* answered HTTP 400 and changes neither lastAlertType nor the requests that
\* reached the gatekeeper (no sendMail).
C14_Rejected ==
    [][(req'.seq # req.seq /\ ~(req'.present /\ req'.currentType = "number")) =>
           /\ resp' = [status |-> 400, success |-> FALSE]
           /\ lastAlertType' = lastAlertType
           /\ log' = log]_vars

C14_Witness ==
    /\ req.present /\ req.currentType = "string"
    /\ resp.status = 400
    /\ lastAlertType = "short_circuit"
    /\ Len(log) = 1 /\ log[1].outcome = "pending"

\* C15: sendMail is called only for a request whose condition is non-normal
\* and differed from the lastAlertType it was compared with, and the calls of
\* sendMail are never more than the changes of lastAlertType to a non-normal
\* value.
MailCalls == {i \in 1..Len(log) : log[i].mail}
FaultChanges ==
    {i \in 1..Len(log) : log[i].post \in Faults /\ log[i].post # log[i].prev}

C15_OnlyOnEdge ==
    /\ \A i \in MailCalls : Cond(i) \in Faults /\ log[i].prev # Cond(i)
    /\ MailCalls \subseteq FaultChanges
    /\ Cardinality(MailCalls) <= Cardinality(FaultChanges)

C15_Witness ==
    /\ Cardinality(MailCalls) = 2
    /\ Cardinality(FaultChanges) = 3

\* C16: a validated request is answered at most once, and once when its
\* sendMail is settled; mail sent is answered 200 with success true, no
\* notification due 200 with success false, dispatch failed 500; the three
\* answers differ, an answer never changes, and success true is answered only
\* for a request whose sendMail resolved.
C16_Answers ==
    /\ [](\A i \in 1..Len(log) :
              /\ log[i].answers = IF log[i].outcome = "pending" THEN 0 ELSE 1
              /\ log[i].outcome = "sent" =>
                     log[i].response = [status |-> 200, success |-> TRUE]
              /\ log[i].outcome = "unchanged" =>
                     log[i].response = [status |-> 200, success |-> FALSE]
              /\ log[i].outcome = "failed" => log[i].response.status = 500
              /\ log[i].response.success =>
                     (log[i].outcome = "sent" /\ log[i].mail)
              /\ \A j \in 1..Len(log) :
                     ( /\ log[i].answers = 1 /\ log[j].answers = 1
                       /\ log[i].outcome # log[j].outcome )
                     => log[i].response # log[j].response)
    /\ [][\A i \in 1..Len(log) : log[i].answers = 1 => log'[i] = log[i]]_vars
    /\ \A i \in 1..MaxLive :
           [](Len(log) >= i => <>(Len(log) >= i /\ log[i].answers = 1))

C16_Witness ==
    \E i, j, k \in 1..Len(log) :
        /\ log[i].outcome = "sent"
        /\ log[j].outcome = "unchanged"
        /\ log[k].outcome = "failed" /\ log[k].mail

\* the condition of the reading dashboard d processed last
LastProcessed(d) ==
    IF polled[d] = <<>> THEN "normal"
    ELSE ClientClassify(polled[d][Len(polled[d])])

\* a step in which a poll of dashboard d ends in the catch block or with an
\* empty list
PollWithoutReading(d) ==
    /\ Len(gets'[d]) < Len(gets[d])
    /\ apiError'[d] \/ polled'[d] = polled[d]

\* C17: a poll that fails or returns an empty list issues no /send-alert call
\* and leaves lastAlertTypeRef, the alert list and the chart buffer unchanged,
\* so the next successful poll is compared with the condition of the reading
\* processed last.
C17_FailedPollSilent ==
    /\ [](lastAlertTypeRef[1] = LastProcessed(1))
    /\ [][PollWithoutReading(1) =>
            /\ net' = net
            /\ calls' = calls
            /\ lastAlertTypeRef' = lastAlertTypeRef
            /\ alerts' = alerts
            /\ chartData' = chartData
            /\ polled' = polled]_vars

\* a poll failed after a fault was processed and reported
C17_Witness ==
    /\ apiError[1]
    /\ lastAlertTypeRef[1] = "short_circuit"
    /\ Len(alerts[1]) = 1
    /\ Len(chartData[1]) = 1

\* C18: a request handled right after an identical one never takes the
\* new-alert branch and leaves lastAlertType as the first one left it.
C18_Idempotent ==
    \A i \in 1..Len(log) :
        ( /\ i + 1 <= Len(log)
          /\ log[i + 1].current = log[i].current
          /\ log[i + 1].wf = log[i].wf )
        => /\ ~log[i + 1].dispatch /\ ~log[i + 1].mail
           /\ log[i + 1].post = log[i].post
           /\ log[i + 1].prev = log[i].post

C18_Witness ==
    \E i \in 1..Len(log) :
        /\ i + 1 <= Len(log)
        /\ log[i].prev = "low_current"
        /\ Cond(i) = "short_circuit"
        /\ log[i].wf /\ log[i].mail
        /\ log[i + 1].current = log[i].current
        /\ log[i + 1].wf
        /\ log[i + 1].outcome = "unchanged"
        /\ lastAlertType = "short_circuit"

\* x > a/b and x < a/b for a sample x and whole a, b with b > 0
Above(x, a, b) == x.n * b > a * x.d
Below(x, a, b) == x.n * b < a * x.d

\* C19: the server classifies a current as short circuit exactly when it is
\* above 11, as low current exactly when it is 0, as normal otherwise: 11 is
\* normal, anything above 11 a short circuit, anything in (0, 11] and anything
\* negative normal.
C19_Boundaries ==
    verdict # NoVerdict =>
        /\ verdict.server \in AlertTypes
        /\ verdict.server = "short_circuit" <=> Above(sample, 11, 1)
        /\ verdict.server = "low_current" <=> sample.n = 0
        /\ (~Above(sample, 11, 1) /\ ~Below(sample, 11, 1)) =>
               verdict.server = "normal"
        /\ (Above(sample, 0, 1) /\ ~Above(sample, 11, 1)) =>
               verdict.server = "normal"
        /\ Below(sample, 0, 1) => verdict.server = "normal"

\* the smallest sample above 11 A
C19_Witness ==
    /\ sample.n = 11 * sample.d + 1
    /\ verdict.server = "short_circuit"

\* C20: the dashboard and the server make the same condition of every
\* current, so no reading the dashboard reports as a fault is normal to the
\* server.
C20_SameClassification ==
    verdict # NoVerdict =>
        /\ verdict.client = verdict.server
        /\ verdict.client # "normal" => verdict.server # "normal"

C20_Witness ==
    /\ Above(sample, 11, 1) /\ Below(sample, 12, 1)
    /\ verdict.client = "short_circuit"
    /\ verdict.server = "short_circuit"

\* C21: lastAlertType starts as "normal" and changes only in the step of a
\* validated POST /send-alert request; POST /data and GET /api/data, succeeding
\* or failing, rejected /send-alert requests and the settlement of sendMail
\* leave it unchanged.
C21_SingleWriter ==
    /\ lastAlertType = "normal"
    /\ [][lastAlertType' # lastAlertType =>
              /\ req'.seq # req.seq
              /\ req'.present /\ req'.currentType = "number"
              /\ Len(log') = Len(log) + 1]_vars
    /\ [][(store' # store \/ gets' # gets \/ failed' # failed) =>
              lastAlertType' = lastAlertType]_vars

\* every route has been used, with and without failure, after a fault was
\* recorded
C21_Witness ==
    /\ lastAlertType = "short_circuit"
    /\ Len(store) = 1
    /\ gets[1] = <<-1>>
    /\ failed = "data"
    /\ req.currentType = "string" /\ resp.status = 400

\* a step in which dashboard d processes a poll with a reading
ProcessedPoll(d) == Len(polled'[d]) = Len(polled[d]) + 1

\* C22: a poll that is processed with a reading calls sendEmailAlert exactly
\* when the reading's condition is non-normal and differs from
\* lastAlertTypeRef, the call carries that reading, and the step leaves the
\* reading's condition in lastAlertTypeRef, with or without a call and while
\* the call is still under way; no other step calls or writes
\* lastAlertTypeRef.
C22_DashboardGate ==
    /\ [][ProcessedPoll(1) =>
            LET current == polled'[1][Len(polled'[1])]
                cond == ClientClassify(current)
                called == Len(calls'[1]) = Len(calls[1]) + 1
            IN  /\ called <=> (cond # "normal" /\ cond # lastAlertTypeRef[1])
                /\ called =>
                       \E call \in net' \ net :
                           /\ net' = net \cup {call}
                           /\ call.d = 1
                           /\ call.body.current = Num(current)
                           /\ call.body.id = calls'[1][Len(calls'[1])].id
                /\ ~called => (calls' = calls /\ net' = net)
                /\ lastAlertTypeRef'[1] = cond]_vars
    /\ [][~ProcessedPoll(1) =>
            /\ calls' = calls
            /\ lastAlertTypeRef' = lastAlertTypeRef
            /\ net' \subseteq net]_vars

\* three polls processed: a call, no call for the same condition, a call for
\* the other fault that is still under way
C22_Witness ==
    /\ polled[1] = <<12, 12, 0>>
    /\ Len(calls[1]) = 2
    /\ lastAlertTypeRef[1] = "low_current"
    /\ \E call \in net : call.body.current = Num(0)

\* the condition of the reading dashboard d reported last
LastReported(d) ==
    IF calls[d] = <<>> THEN "normal"
    ELSE ClientClassify(polled[d][calls[d][Len(calls[d])].pos])

\* C23: with one dashboard, a fresh server and calls that reach the server in
\* the order they were issued, whenever no call is under way lastAlertType is
\* the condition the dashboard reported last; so it equals lastAlertTypeRef
\* when that is non-normal, and may be a fault while lastAlertTypeRef is
\* normal.
C23_StateRelation ==
    net = {} =>
        /\ lastAlertType = LastReported(1)
        /\ lastAlertTypeRef[1] # "normal" => lastAlertType = lastAlertTypeRef[1]

\* after the polls 12 A, 5 A, 0 A, 5 A the server still holds the last fault
C23_Witness ==
    /\ net = {}
    /\ polled[1] = <<12, 5, 0, 5>>
    /\ lastAlertTypeRef[1] = "normal"
    /\ lastAlertType = "low_current"
    /\ Len(log) = 2

\* the condition of the k-th reading dashboard d processed
CondSeen(d, k) == ClientClassify(polled[d][k])

\* C24: the failure of a /send-alert call (a rejected fetch, a status that is
\* not OK) neither changes lastAlertTypeRef nor issues a call, so
\* lastAlertTypeRef stays the condition of the reading processed last, and
\* every call belongs to a poll of its own whose condition is non-normal and
\* differs from the condition of the poll processed before it: polls that
\* still show the condition of a failed call make no further call.
C24_NoRetry ==
    /\ [][handled'[1] # handled[1] =>
              /\ lastAlertTypeRef' = lastAlertTypeRef
              /\ calls' = calls
              /\ polled' = polled
              /\ net' \subseteq net]_vars
    /\ [](lastAlertTypeRef[1] = LastProcessed(1))
    /\ [](\A k \in 1..Len(calls[1]) :
              LET p == calls[1][k].pos IN
              /\ CondSeen(1, p) # "normal"
              /\ p > 1 => CondSeen(1, p - 1) # CondSeen(1, p)
              /\ k > 1 => calls[1][k - 1].pos < p)

\* the call for 12 A failed before it reached the server; the next poll shows
\* 12 A again and makes no call, the poll after it shows 0 A and makes one
C24_Witness ==
    /\ polled[1] = <<12, 12, 0>>
    /\ Len(calls[1]) = 2
    /\ handled[1] = {1}
    /\ emailStatus[1] = "error"
    /\ log = <<>>

\* the statuses that show a check mark and a sent mail
SuccessStatus == {"sent", "sent_demo"}

\* C26: the dashboard shows a success status only after it has read the
\* response of one of its calls for which the server sent the mail.
C26_TruthfulStatus ==
    emailStatus[1] \in SuccessStatus =>
        \E i \in 1..Len(log) :
            /\ log[i].d = 1
            /\ log[i].pos \in handled[1]
            /\ log[i].outcome = "sent"

\* C28: the second revision takes the mail branch for exactly the validated
\* requests with a current above 12 A, whatever came before (and calls
\* sendMail when the mail can be rendered), so N such requests in a row give N
\* dispatches; requests of 0 A and of 12 A, faults to the first revision, give
\* none; no request changes the state.
C28_LevelTriggered ==
    /\ lastAlertType = "normal"
    /\ \A i \in 1..Len(log) :
           /\ log[i].dispatch <=> log[i].current > 12
           /\ log[i].wf => (log[i].mail <=> log[i].current > 12)
           /\ (log[i].current <= 12 /\ Cond(i) \in Faults) =>
                  (~log[i].dispatch /\ ~log[i].mail)
           /\ log[i].prev = log[i].post

\* two requests of 13 A in a row are both mailed, 12 A and 0 A are not
C28_Witness ==
    /\ Len(log) = 4
    /\ log[1].current = 13 /\ log[1].mail /\ log[1].outcome = "sent"
    /\ log[2].current = 13 /\ log[2].mail /\ log[2].outcome = "sent"
    /\ log[3].current = 12 /\ ~log[3].dispatch
    /\ log[4].current = 0 /\ ~log[4].dispatch

\* the smaller of two numbers
Min(a, b) == IF a <= b THEN a ELSE b

\* C25: chartData holds at most 20 points, the points of the most recent
\* processed polls (all of them up to 20) in the order they were processed;
\* in a behaviour of SpecLong the k-th processed poll shows the reading k.
C25_RollingChart ==
    LET n == Len(polled[1])
        m == Len(chartData[1])
    IN  /\ m = Min(n, 20)
        /\ \A j \in 1..m : chartData[1][j] = n - m + j

\* 22 polls processed: the points of the polls 3 to 22 are held
C25_Witness ==
    /\ Len(polled[1]) = 22
    /\ Len(chartData[1]) = 20
    /\ chartData[1][1] = 3
    /\ chartData[1][20] = 22

\* C27: the alerts list holds at most 10 entries, one for each of the most
\* recent calls of sendEmailAlert (all of them up to 10), newest first, with
\* the id and the condition of the reading the call was made for, and none of
\* type normal.
C27_RecentAlerts ==
    LET n == Len(calls[1])
        m == Len(alerts[1])
    IN  /\ m = Min(n, 10)
        /\ \A j \in 1..m :
               LET call == calls[1][n - j + 1] IN
               /\ alerts[1][j].id = call.id
               /\ alerts[1][j].type = ClientClassify(polled[1][call.pos])
               /\ alerts[1][j].type # "normal"

\* more than ten calls were made, the list holds the ten newest
C27_Witness ==
    /\ Len(calls[1]) >= 12
    /\ Len(alerts[1]) = 10
    /\ alerts[1][1].id = calls[1][Len(calls[1])].id
    /\ alerts[1][10].id = calls[1][Len(calls[1]) - 9].id

====
